---------------------------- MODULE Spec2Model ----------------------------
(***************************************************************************)
(* Model of the SQL script splitter split_sql_queries of                   *)
(* scripts/sql/trino_queries_flow.py, of the runners that execute its      *)
(* statements (run_trino_queries of main.py and main of                    *)
(* trino_queries_flow.py), of execute_trino_query, and of the pipeline     *)
(* main of main.py.                                                        *)
(*                                                                         *)
(* A string is a sequence of one-character strings.  The scanner is        *)
(* modelled one loop iteration at a time: the for-loop over the lines of   *)
(* the script, the while-loop over the characters of the stripped line,    *)
(* the statement after the while-loop and the final flush.                 *)
(***************************************************************************)
EXTENDS Integers, Sequences, FiniteSets, TLC

(***************************************************************************)
(* Bounds of the model.                                                    *)
(***************************************************************************)
MaxLen == 4
MaxTerm == 3
MaxQueries == 3

NL == "\n"

Alphabet == {"a", " ", ";", "'", "\"", "-", "/", "*", NL}

(***************************************************************************)
(* Python string helpers.                                                  *)
(***************************************************************************)
\* str.strip() with no argument removes leading and trailing whitespace
IsSpace(c) == c \in {" ", NL, "\t", "\r"}

RECURSIVE LStrip(_)
LStrip(s) ==
  IF s # <<>> /\ IsSpace(Head(s)) THEN LStrip(Tail(s)) ELSE s

RECURSIVE RStrip(_)
RStrip(s) ==
  IF s # <<>> /\ IsSpace(s[Len(s)]) THEN RStrip(SubSeq(s, 1, Len(s) - 1)) ELSE s

Strip(s) == RStrip(LStrip(s))

\* str.split(sep) for a one-character separator: "" gives [""], and n
\* separators give n + 1 pieces
RECURSIVE SplitOn(_, _, _)
SplitOn(s, sep, cur) ==
  IF s = <<>> THEN <<cur>>
  ELSE IF Head(s) = sep THEN <<cur>> \o SplitOn(Tail(s), sep, <<>>)
  ELSE SplitOn(Tail(s), sep, Append(cur, Head(s)))

SplitLines(s) == SplitOn(s, NL, <<>>)

\* ' '.join(parts)
RECURSIVE Join(_)
Join(parts) ==
  IF parts = <<>> THEN <<>>
  ELSE IF Len(parts) = 1 THEN parts[1]
  ELSE parts[1] \o <<" ">> \o Join(Tail(parts))

\* line.startswith('--')
StartsWithDashes(l) == Len(l) >= 2 /\ l[1] = "-" /\ l[2] = "-"

\* line[a:] and line[:b] with 0-based a, b in 0..len
SliceFrom(l, a) == SubSeq(l, a + 1, Len(l))
SliceTo(l, b) == SubSeq(l, 1, b)

(***************************************************************************)
(* State of one call of split_sql_queries.                                 *)
(*   sql_content    the argument                                           *)
(*   lines          the lines the for-loop has not taken yet               *)
(*   line, i        the (stripped, possibly shortened) line and the        *)
(*                  0-based index of the while-loop                        *)
(*   pc             "for": at the head of the for-loop, "while": at the    *)
(*                  head of the while-loop, "break": after the break of    *)
(*                  the while-loop, "done": returned                       *)
(***************************************************************************)
VARIABLES sql_content, lines, line, i, in_string, string_char, in_comment,
          current_query, queries, pc

vars == <<sql_content, lines, line, i, in_string, string_char, in_comment,
          current_query, queries, pc>>

(***************************************************************************)
(* State of the query runners that execute the statements of the list:     *)
(* run_trino_queries of main.py ("pipeline") and the loop of main of       *)
(* trino_queries_flow.py ("cli_file" with --query-file, "cli_query" with   *)
(* --query).                                                               *)
(*   runner         which runner is running, "idle" when none              *)
(*   output_arg     args.output of the command line, "None" when absent    *)
(*   r_queries      the list the runner loops over                         *)
(*   r_i            the 1-based loop index i of enumerate(queries, 1)      *)
(*   r_pc           "for", "execute", "save", "final", "except", "done",   *)
(*                  and "raised" when an exception leaves the runner       *)
(*   results_df     the result of the statement being handled              *)
(*   last_result    the value run_trino_queries returns                    *)
(*   all_results    the list the command line collects                     *)
(*   files          the artifacts written so far, by name                  *)
(*   submitted      the statements handed to execute_trino_query so far    *)
(*   failed         for each position the call that raised, or "none"      *)
(***************************************************************************)
VARIABLES runner, output_arg, r_queries, r_i, r_pc, results_df, last_result,
          all_results, files, submitted, failed

rvars == <<runner, output_arg, r_queries, r_i, r_pc, results_df, last_result,
           all_results, files, submitted, failed>>

(***************************************************************************)
(* State of one call of execute_trino_query.                               *)
(*   sql_query      the argument                                           *)
(*   e_pc           "connect", "cursor", "execute", "fetchall", "frame",   *)
(*                  "finally", then "returned" or "raised"; "idle" when    *)
(*                  there is no call                                       *)
(*   conn           "None", "open" or "closed"                             *)
(*   closes         the number of calls of conn.close()                    *)
(*   cursor         "None", or "cursor" once conn.cursor() returned        *)
(*   description    cursor.description: "None", or the columns             *)
(*   rows           what cursor.fetchall() returned                        *)
(*   e_df           the DataFrame built from rows                          *)
(*   pending        the call whose exception is propagating, or "None"     *)
(***************************************************************************)
VARIABLES sql_query, e_pc, conn, closes, cursor, description, rows, e_df,
          pending

evars ==
  <<sql_query, e_pc, conn, closes, cursor, description, rows, e_df, pending>>

(***************************************************************************)
(* State of one run of the pipeline, main of main.py.                     *)
(*   p_pc           "next": inside the try block, between two steps;       *)
(*                  "call": the function of the step is running;           *)
(*                  "queries": run_trino_queries is running; "except":     *)
(*                  in the handler; "raised", "returned": main is left;    *)
(*                  "idle" when there is no run                            *)
(*   step           the number of the step that was started last           *)
(*   log            the messages logged, in order                          *)
(*   trino_config   what setup_local_trino_for_parquet returned, then      *)
(*                  the configuration used                                 *)
(***************************************************************************)
VARIABLES p_pc, step, log, trino_config

pvars == <<p_pc, step, log, trino_config>>

State ==
  [sql_content |-> sql_content, lines |-> lines, line |-> line, i |-> i,
   in_string |-> in_string, string_char |-> string_char,
   in_comment |-> in_comment, current_query |-> current_query,
   queries |-> queries, pc |-> pc]

Becomes(s) ==
  /\ sql_content' = s.sql_content
  /\ lines' = s.lines
  /\ line' = s.line
  /\ i' = s.i
  /\ in_string' = s.in_string
  /\ string_char' = s.string_char
  /\ in_comment' = s.in_comment
  /\ current_query' = s.current_query
  /\ queries' = s.queries
  /\ pc' = s.pc
  /\ UNCHANGED rvars
  /\ UNCHANGED evars
  /\ UNCHANGED pvars

\* the state at the head of the for-loop, before the first line
Start(content) ==
  [sql_content |-> content, lines |-> SplitLines(content), line |-> <<>>,
   i |-> 0, in_string |-> FALSE, string_char |-> "None",
   in_comment |-> FALSE, current_query |-> <<>>, queries |-> <<>>,
   pc |-> "for"]

\* the character under the index, line[i]
Char(s) == s.line[s.i + 1]
\* i + 1 < len(line) and line[i + 1] == c
NextIs(s, c) == s.i + 1 < Len(s.line) /\ s.line[s.i + 2] = c

(***************************************************************************)
(* The for-loop head: the next line is stripped; a blank line and a line   *)
(* that starts with '--' are skipped.                                      *)
(***************************************************************************)
AtLine(s) == s.pc = "for" /\ s.lines # <<>>

\* the line is taken as it is, without the strip
Stripped_Raw(s) == Head(s.lines)

\* line = line.strip()
Stripped(s) == Strip(Head(s.lines))

AtBlankLine(s) == AtLine(s) /\ Stripped(s) = <<>>

AtCommentLine(s) ==
  /\ AtLine(s)
  /\ Stripped(s) # <<>>
  /\ StartsWithDashes(Stripped(s))

AtScanLine(s) ==
  /\ AtLine(s)
  /\ Stripped(s) # <<>>
  /\ ~StartsWithDashes(Stripped(s))

\* the skipped line ends the literal and the comment that are open
SkipLine_ResetState(s) ==
  [s EXCEPT !.lines = Tail(s.lines), !.line = Stripped(s),
            !.in_string = FALSE, !.string_char = "None", !.in_comment = FALSE]

\* continue
SkipLine(s) == [s EXCEPT !.lines = Tail(s.lines), !.line = Stripped(s)]

\* the scan state is set back at the start of the line
BeginLine_ResetState(s) ==
  [s EXCEPT !.lines = Tail(s.lines), !.line = Stripped(s),
            !.i = 0, !.pc = "while",
            !.in_string = FALSE, !.string_char = "None", !.in_comment = FALSE]

\* i = 0
BeginLine(s) ==
  [s EXCEPT !.lines = Tail(s.lines), !.line = Stripped(s),
            !.i = 0, !.pc = "while"]

(***************************************************************************)
(* The while-loop body: the if/elif chain on line[i].                      *)
(***************************************************************************)
InLoop(s) == s.pc = "while" /\ s.i < Len(s.line)

AtQuote(s) == InLoop(s) /\ Char(s) \in {"'", "\""} /\ ~s.in_comment

AtLineComment(s) ==
  /\ InLoop(s) /\ ~AtQuote(s)
  /\ Char(s) = "-" /\ NextIs(s, "-") /\ ~s.in_string

AtBlockClose(s) ==
  /\ InLoop(s) /\ ~AtQuote(s) /\ ~AtLineComment(s)
  /\ Char(s) = "*" /\ NextIs(s, "/") /\ s.in_string = FALSE

\* the test of in_string is missing
AtBlockOpen_IgnoreString(s) ==
  /\ InLoop(s) /\ ~AtQuote(s) /\ ~AtLineComment(s) /\ ~AtBlockClose(s)
  /\ Char(s) = "/" /\ NextIs(s, "*")

AtBlockOpen(s) ==
  /\ InLoop(s) /\ ~AtQuote(s) /\ ~AtLineComment(s) /\ ~AtBlockClose(s)
  /\ Char(s) = "/" /\ NextIs(s, "*") /\ s.in_string = FALSE

\* the test of in_string is missing
AtSemicolon_IgnoreString(s) ==
  /\ InLoop(s) /\ ~AtQuote(s) /\ ~AtLineComment(s) /\ ~AtBlockClose(s)
  /\ ~AtBlockOpen(s)
  /\ Char(s) = ";" /\ ~s.in_comment

AtSemicolon(s) ==
  /\ InLoop(s) /\ ~AtQuote(s) /\ ~AtLineComment(s) /\ ~AtBlockClose(s)
  /\ ~AtBlockOpen(s)
  /\ Char(s) = ";" /\ ~s.in_string /\ ~s.in_comment

AtOther(s) ==
  /\ InLoop(s) /\ ~AtQuote(s) /\ ~AtLineComment(s) /\ ~AtBlockClose(s)
  /\ ~AtBlockOpen(s) /\ ~AtSemicolon(s)

\* a quote inside a literal is kept as a character of the literal
OnQuote_OpenOnly(s) ==
  IF ~s.in_string
    THEN [s EXCEPT !.in_string = TRUE, !.string_char = Char(s), !.i = s.i + 1]
  ELSE [s EXCEPT !.i = s.i + 1]

OnQuote(s) ==
  IF s.in_string /\ Char(s) = s.string_char
    THEN [s EXCEPT !.in_string = FALSE, !.string_char = "None", !.i = s.i + 1]
  ELSE IF ~s.in_string
    THEN [s EXCEPT !.in_string = TRUE, !.string_char = Char(s), !.i = s.i + 1]
  ELSE [s EXCEPT !.i = s.i + 1]

\* in_comment = True; break
OnLineComment(s) == [s EXCEPT !.in_comment = TRUE, !.pc = "break"]

\* in_comment = False; i += 1; i += 1
OnBlockClose(s) == [s EXCEPT !.in_comment = FALSE, !.i = s.i + 2]

\* in_comment = True; i += 1; i += 1
OnBlockOpen(s) == [s EXCEPT !.in_comment = TRUE, !.i = s.i + 2]

\* the statement is kept as joined, without the strip
Flush_NoStrip(qs, parts) ==
  IF Strip(Join(parts)) # <<>> THEN Append(qs, Join(parts)) ELSE qs

\* the statement is kept without the test for emptiness
Flush_NoEmptyTest(qs, parts) == Append(qs, Strip(Join(parts)))

\* the statement is put at the front of the list
Flush_Prepend(qs, parts) ==
  IF Strip(Join(parts)) # <<>> THEN <<Strip(Join(parts))>> \o qs ELSE qs

\* the statement ' '.join(parts).strip() is kept when it is not empty
Flush(qs, parts) ==
  IF Strip(Join(parts)) # <<>> THEN Append(qs, Strip(Join(parts))) ELSE qs

\* the rest of the line is taken from the ';' instead of from behind it
OnSemicolon_KeepDelimiter(s) ==
  [s EXCEPT !.queries = Flush(s.queries, Append(s.current_query, SliceTo(s.line, s.i))),
            !.current_query = <<>>,
            !.line = SliceFrom(s.line, s.i),
            !.i = 0]

\* the statement is cut behind the ';' instead of before it
OnSemicolon_IncludeDelimiter(s) ==
  [s EXCEPT !.queries = Flush(s.queries, Append(s.current_query, SliceTo(s.line, s.i + 1))),
            !.current_query = <<>>,
            !.line = SliceFrom(s.line, s.i + 1),
            !.i = 0]

OnSemicolon(s) ==
  [s EXCEPT !.queries = Flush(s.queries, Append(s.current_query, SliceTo(s.line, s.i))),
            !.current_query = <<>>,
            !.line = SliceFrom(s.line, s.i + 1),
            !.i = 0]

\* i += 1
OnOther(s) == [s EXCEPT !.i = s.i + 1]

(***************************************************************************)
(* After the while-loop (its condition failed, or the break was taken).    *)
(***************************************************************************)
AtEndOfLine(s) == (s.pc = "while" /\ ~(s.i < Len(s.line))) \/ s.pc = "break"

\* the end of the line ends the statement
OnEndOfLine_FlushLine(s) ==
  IF ~s.in_comment
    THEN [s EXCEPT !.queries = Flush(s.queries, Append(s.current_query, s.line)),
                   !.current_query = <<>>, !.pc = "for"]
  ELSE [s EXCEPT !.pc = "for"]

\* the line is kept with its line break
OnEndOfLine_KeepBreak(s) ==
  IF ~s.in_comment
    THEN [s EXCEPT !.current_query = Append(s.current_query, s.line \o <<NL>>),
                   !.pc = "for"]
  ELSE [s EXCEPT !.pc = "for"]

OnEndOfLine(s) ==
  IF ~s.in_comment
    THEN [s EXCEPT !.current_query = Append(s.current_query, s.line), !.pc = "for"]
  ELSE [s EXCEPT !.pc = "for"]

(***************************************************************************)
(* After the for-loop: the last query, and the return.                     *)
(***************************************************************************)
AtReturn(s) == s.pc = "for" /\ s.lines = <<>>

\* the last query is kept only when no literal is open
OnReturn_ClosedOnly(s) ==
  IF s.current_query # <<>> /\ ~s.in_comment /\ ~s.in_string
    THEN [s EXCEPT !.queries = Flush(s.queries, s.current_query), !.pc = "done"]
  ELSE [s EXCEPT !.pc = "done"]

\* the last query is forgotten
OnReturn_NoFlush(s) == [s EXCEPT !.pc = "done"]

OnReturn(s) ==
  IF s.current_query # <<>> /\ ~s.in_comment
    THEN [s EXCEPT !.queries = Flush(s.queries, s.current_query), !.pc = "done"]
  ELSE [s EXCEPT !.pc = "done"]

(***************************************************************************)
(* The function as a whole, by iterating the steps.                        *)
(***************************************************************************)
Step(s) ==
  CASE AtBlankLine(s) -> SkipLine(s)
    [] AtCommentLine(s) -> SkipLine(s)
    [] AtScanLine(s) -> BeginLine(s)
    [] AtQuote(s) -> OnQuote(s)
    [] AtLineComment(s) -> OnLineComment(s)
    [] AtBlockClose(s) -> OnBlockClose(s)
    [] AtBlockOpen(s) -> OnBlockOpen(s)
    [] AtSemicolon(s) -> OnSemicolon(s)
    [] AtOther(s) -> OnOther(s)
    [] AtEndOfLine(s) -> OnEndOfLine(s)
    [] AtReturn(s) -> OnReturn(s)

RECURSIVE Run(_)
Run(s) == IF s.pc = "done" THEN s ELSE Run(Step(s))

split_sql_queries(content) == Run(Start(content)).queries

(***************************************************************************)
(* The inputs.                                                             *)
(***************************************************************************)
\* the characters of a string constant
Chars(str) == [k \in 1..Len(str) |-> SubSeq(str, k, k)]

Range(s) == {s[k] : k \in 1..Len(s)}

Strings(chars, n) == UNION {[1..k -> chars] : k \in 0..n}

\* the scripts of the documented scenarios
TwoStatements == Chars("SELECT 1; SELECT 2; ")
QuotedDelimiter == Chars("SELECT 'a;b' AS x;")
TrailingLineComment == Chars("SELECT * FROM t -- comment\nWHERE id = 1;")
BlockCommentFirst == Chars("/* ; ; */ SELECT 2;")
CommentLineFirst == Chars("-- drop table;\nSELECT 1;")
IndentedCommentLine == Chars("  -- drop table;\nSELECT 1;")
UnterminatedLiteral == Chars("SELECT 'abc")
UnterminatedComment == Chars("SELECT 1\n/* abc")
CommentOnlyStatement == Chars("SELECT 1; /* c */;")
CommentBetweenStatements == Chars("SELECT 1; -- c\nSELECT 2;")

Scenarios ==
  {TwoStatements, QuotedDelimiter, TrailingLineComment, BlockCommentFirst,
   CommentLineFirst, IndentedCommentLine, UnterminatedLiteral,
   UnterminatedComment, CommentOnlyStatement, CommentBetweenStatements}

\* one statement with a single-quoted literal that holds a ';'
Pads == Strings({"a", " ", NL}, MaxLen - 3)
Literals == {l \in Strings(Alphabet \ {"'", NL}, MaxLen - 2) : ";" \in Range(l)}

QuotedScripts ==
  {p \o <<"'">> \o l \o <<"'">> \o s \o <<";">> :
     p \in Pads, l \in Literals, s \in Pads}

\* a '--' comment after code, after whitespace or at the start of a line,
\* followed by a second line
LineCommentScripts ==
  {x \o <<"-", "-">> \o y \o <<NL>> \o z \o <<";">> :
     x \in {<<>>, <<" ">>, <<"a">>, <<"a", " ">>},
     y \in Strings({"a", ";", " "}, MaxLen - 3),
     z \in {<<"a">>, <<"a", " ", "a">>}}

\* a block comment followed by a statement
BlockCommentScripts ==
  {<<"/", "*">> \o c \o <<"*", "/">> \o x \o <<";">> :
     c \in Strings({"a", ";", " ", NL}, MaxLen - 2),
     x \in {<<"a">>, <<" ", "a">>}}

\* a block comment that holds quotes, markers and line breaks, followed by a
\* statement
NestedCommentScripts ==
  {<<"/", "*">> \o c \o <<"*", "/", "a", ";">> :
     c \in Strings({"a", "'", "-", "/", "*", NL}, MaxLen - 2)}

Inputs ==
  Strings(Alphabet, MaxLen) \cup Scenarios \cup QuotedScripts
    \cup LineCommentScripts \cup BlockCommentScripts
    \cup NestedCommentScripts

(***************************************************************************)
(* The state machine.                                                      *)
(***************************************************************************)
Is(s) ==
  /\ sql_content = s.sql_content
  /\ lines = s.lines
  /\ line = s.line
  /\ i = s.i
  /\ in_string = s.in_string
  /\ string_char = s.string_char
  /\ in_comment = s.in_comment
  /\ current_query = s.current_query
  /\ queries = s.queries
  /\ pc = s.pc

\* a DataFrame: the result of the statement at a position; None
Df(pos, sql) == [pos |-> pos, sql |-> sql]
None == [pos |-> 0, sql |-> <<>>]

\* no artifact
NoFiles == [name \in {} |-> None]

\* no runner is running
RunnerIdle ==
  /\ runner = "idle"
  /\ output_arg = "None"
  /\ r_queries = <<>>
  /\ r_i = 0
  /\ r_pc = "idle"
  /\ results_df = None
  /\ last_result = None
  /\ all_results = <<>>
  /\ files = NoFiles
  /\ submitted = <<>>
  /\ failed = <<>>

\* no DataFrame was built
NoFrame == [columns |-> "None", rows |-> <<"None">>]

\* no call of execute_trino_query
ExecIdle ==
  /\ sql_query = <<>>
  /\ e_pc = "idle"
  /\ conn = "None"
  /\ closes = 0
  /\ cursor = "None"
  /\ description = "None"
  /\ rows = <<>>
  /\ e_df = NoFrame
  /\ pending = "None"

\* no run of the pipeline
PipelineIdle ==
  /\ p_pc = "idle"
  /\ step = 0
  /\ log = <<>>
  /\ trino_config = "None"

Init ==
  /\ \E content \in Inputs : Is(Start(content))
  /\ RunnerIdle
  /\ ExecIdle
  /\ PipelineIdle

SkipBlankLine == AtBlankLine(State) /\ Becomes(SkipLine(State))
SkipCommentLine == AtCommentLine(State) /\ Becomes(SkipLine(State))
ScanLine == AtScanLine(State) /\ Becomes(BeginLine(State))
Quote == AtQuote(State) /\ Becomes(OnQuote(State))
LineComment == AtLineComment(State) /\ Becomes(OnLineComment(State))
BlockClose == AtBlockClose(State) /\ Becomes(OnBlockClose(State))
BlockOpen == AtBlockOpen(State) /\ Becomes(OnBlockOpen(State))
Semicolon == AtSemicolon(State) /\ Becomes(OnSemicolon(State))
Other == AtOther(State) /\ Becomes(OnOther(State))
EndOfLine == AtEndOfLine(State) /\ Becomes(OnEndOfLine(State))
Return == AtReturn(State) /\ Becomes(OnReturn(State))

Next ==
  \/ SkipBlankLine
  \/ SkipCommentLine
  \/ ScanLine
  \/ Quote
  \/ LineComment
  \/ BlockClose
  \/ BlockOpen
  \/ Semicolon
  \/ Other
  \/ EndOfLine
  \/ Return

Spec == Init /\ [][Next]_vars

TypeOK ==
  /\ pc \in {"for", "while", "break", "done"}
  /\ in_string \in BOOLEAN
  /\ in_comment \in BOOLEAN
  /\ string_char \in {"None", "'", "\""}
  /\ pc \in {"while", "break"} => i \in 0..Len(line)

\* The call alone, on every script of at most MaxTerm characters.  The
\* interpreter runs the next statement of the function as long as there is
\* one, hence the weak fairness of Next.
TermInit ==
  /\ \E content \in Strings(Alphabet, MaxTerm) : Is(Start(content))
  /\ RunnerIdle
  /\ ExecIdle
  /\ PipelineIdle

TermSpec == TermInit /\ [][Next]_vars /\ WF_vars(Next)

(***************************************************************************)
(* Termination.                                                            *)
(***************************************************************************)
\* what is left to scan: the lines not taken, then the characters of the
\* line not scanned, then the position in the loop
Rank ==
  CASE pc = "while" -> 3
    [] pc = "break" -> 2
    [] pc = "for" -> 1
    [] pc = "done" -> 0

Measure ==
  Len(lines) * (4 * (Len(sql_content) + 2))
    + (IF pc \in {"while", "break"} THEN 4 * (Len(line) - i) ELSE 0)
    + Rank

\* C1: split_sql_queries is total: every step of the scan, the restart at
\* i = 0 after a recognised ';' included, strictly decreases what is left to
\* scan, no step is stuck before the return, and the call returns.
CanStep(s) ==
  \/ AtBlankLine(s) \/ AtCommentLine(s) \/ AtScanLine(s)
  \/ AtQuote(s) \/ AtLineComment(s) \/ AtBlockClose(s) \/ AtBlockOpen(s)
  \/ AtSemicolon(s) \/ AtOther(s) \/ AtEndOfLine(s) \/ AtReturn(s)

C1_Total ==
  /\ [][Measure' < Measure]_vars
  /\ [](Measure \in Nat /\ (pc # "done" => CanStep(State)))
  /\ <>(pc = "done")

\* an unterminated literal after a recognised ';' on the same line: returned
C1_Witness ==
  pc = "done" /\ in_string /\ Len(queries) = 2 /\ Len(SplitLines(sql_content)) = 1

(***************************************************************************)
(* Shape of the statements.                                                *)
(***************************************************************************)
Trimmed(q) == q # <<>> /\ ~IsSpace(q[1]) /\ ~IsSpace(q[Len(q)])

\* C2: every statement of the list is non-empty and has no leading or
\* trailing whitespace; ';;' gives the empty list and 'SELECT 1; SELECT 2; '
\* gives exactly the two statements.
C2_TrimmedNonEmpty ==
  /\ \A k \in 1..Len(queries) : Trimmed(queries[k])
  /\ pc = "done" /\ sql_content = Chars(";;") => queries = <<>>
  /\ pc = "done" /\ sql_content = TwoStatements
       => queries = <<Chars("SELECT 1"), Chars("SELECT 2")>>

\* the trailing ' ' after the last ';' of the scenario added no statement
C2_Witness ==
  pc = "done" /\ sql_content = TwoStatements /\ Len(queries) = 2

(***************************************************************************)
(* Delimiters inside literals and comments.                                *)
(***************************************************************************)
Markers == {<<"-", "-">>, <<"/", "*">>, <<"*", "/">>}

\* the positions where a two-character marker starts
MarkerAt(s, k) == k < Len(s) /\ <<s[k], s[k + 1]>> \in Markers
HasMarker(s) == \E k \in 1..Len(s) : MarkerAt(s, k)

Positions(s, c) == {k \in 1..Len(s) : s[k] = c}
Min(S) == CHOOSE x \in S : \A y \in S : x <= y
Max(S) == CHOOSE x \in S : \A y \in S : x >= y

\* t occurs in s as a block of consecutive characters
Contains(s, t) ==
  \E k \in 0..(Len(s) - Len(t)) : SubSeq(s, k + 1, k + Len(t)) = t

\* code text without quote, ';' or comment marker
PlainCode(s) ==
  /\ Range(s) \cap {"'", "\"", ";"} = {}
  /\ ~HasMarker(s)

\* p 'l' s ; with p and s plain code and the literal l, on one line, holding
\* a ';'
IsQuotedScript(c) ==
  /\ Cardinality(Positions(c, "'")) = 2
  /\ c[Len(c)] = ";"
  /\ LET a == Min(Positions(c, "'"))
         b == Max(Positions(c, "'"))
     IN /\ PlainCode(SubSeq(c, 1, a - 1))
        /\ PlainCode(SubSeq(c, b + 1, Len(c) - 1))
        /\ ";" \in Range(SubSeq(c, a + 1, b - 1))
        /\ NL \notin Range(SubSeq(c, a + 1, b - 1))

QuotedLiteral(c) ==
  SubSeq(c, Min(Positions(c, "'")), Max(Positions(c, "'")))

\* C3: a script of one ';'-terminated statement with a single-quoted literal
\* that holds a ';' (the literal on one line, the rest of the statement free
\* of quotes and comments) returns exactly one statement, and the statement
\* contains the literal unchanged.
C3_QuotedDelimiterKept ==
  pc = "done" /\ IsQuotedScript(sql_content)
    => /\ Len(queries) = 1
       /\ Contains(queries[1], QuotedLiteral(sql_content))

\* the scenario SELECT 'a;b' AS x; returned as one statement
C3_Witness ==
  /\ pc = "done"
  /\ sql_content = QuotedDelimiter
  /\ queries = <<Chars("SELECT 'a;b' AS x")>>

(***************************************************************************)
(* Comments.                                                               *)
(***************************************************************************)
\* x -- y NL z ; with x and z plain code that is not blank
IsTrailingCommentScript(c) ==
  /\ Len(SplitLines(c)) = 2
  /\ LET l1 == SplitLines(c)[1]
         l2 == SplitLines(c)[2]
     IN /\ HasMarker(l1)
        /\ l2 # <<>> /\ l2[Len(l2)] = ";"
        /\ LET d == Min({k \in 1..Len(l1) : MarkerAt(l1, k)})
           IN /\ <<l1[d], l1[d + 1]>> = <<"-", "-">>
              /\ PlainCode(SubSeq(l1, 1, d - 1))
              /\ Strip(SubSeq(l1, 1, d - 1)) # <<>>
        /\ PlainCode(SubSeq(l2, 1, Len(l2) - 1))
        /\ Strip(SubSeq(l2, 1, Len(l2) - 1)) # <<>>

BeforeComment(c) ==
  LET l1 == SplitLines(c)[1]
  IN Strip(SubSeq(l1, 1, Min({k \in 1..Len(l1) : MarkerAt(l1, k)}) - 1))

AfterComment(c) ==
  LET l2 == SplitLines(c)[2] IN Strip(SubSeq(l2, 1, Len(l2) - 1))

\* C4: a '--' after code discards only the rest of its line: the code before
\* it is kept and the statement continues on the next line, so the script
\* 'x -- y NL z;' returns the one statement 'x z'.
C4_TrailingCommentKeepsCode ==
  pc = "done" /\ IsTrailingCommentScript(sql_content)
    => queries = <<BeforeComment(sql_content) \o <<" ">> \o AfterComment(sql_content)>>

\* /* c */ x ; with x plain code that is not blank
IsBlockCommentScript(c) ==
  /\ Len(c) >= 4
  /\ <<c[1], c[2]>> = <<"/", "*">>
  /\ c[Len(c)] = ";"
  /\ \E e \in 3..(Len(c) - 1) :
       /\ <<c[e], c[e + 1]>> = <<"*", "/">>
       /\ \A k \in 3..(e - 1) : <<c[k], c[k + 1]>> # <<"*", "/">>
       /\ PlainCode(SubSeq(c, e + 2, Len(c) - 1))
       /\ NL \notin Range(SubSeq(c, e + 2, Len(c) - 1))
       /\ Strip(SubSeq(c, e + 2, Len(c) - 1)) # <<>>

AfterBlockComment(c) ==
  LET e == Min({k \in 3..(Len(c) - 1) : <<c[k], c[k + 1]>> = <<"*", "/">>})
  IN Strip(SubSeq(c, e + 2, Len(c) - 1))

\* C5: a block comment that holds delimiters, followed by a ';'-terminated
\* statement, returns exactly one statement, and it is the code text alone.
C5_BlockCommentRemoved ==
  pc = "done" /\ IsBlockCommentScript(sql_content)
    => queries = <<AfterBlockComment(sql_content)>>

\* the first non-whitespace characters of the line are '--'
FullLineComment(l) == StartsWithDashes(LStrip(l))

\* '\n'.join(ls)
RECURSIVE JoinLines(_)
JoinLines(ls) ==
  IF ls = <<>> THEN <<>>
  ELSE IF Len(ls) = 1 THEN ls[1]
  ELSE ls[1] \o <<NL>> \o JoinLines(Tail(ls))

WithoutLine(ls, k) == SubSeq(ls, 1, k - 1) \o SubSeq(ls, k + 1, Len(ls))

\* C6: a line whose first non-whitespace characters are '--' is a full-line
\* comment: the script returns what it returns without that line (none of
\* its characters reach a statement, a ';' on it ends none), with or without
\* whitespace before the '--'; '-- drop table;\nSELECT 1;' returns
\* ['SELECT 1'].
C6_CommentLineIgnored ==
  pc = "done"
    => /\ \A k \in 1..Len(SplitLines(sql_content)) :
            FullLineComment(SplitLines(sql_content)[k])
              => queries = split_sql_queries(JoinLines(WithoutLine(SplitLines(sql_content), k)))
       /\ sql_content \in {CommentLineFirst, IndentedCommentLine}
            => queries = <<Chars("SELECT 1")>>

\* the indented comment line with its ';' was skipped
C6_Witness ==
  /\ pc = "done"
  /\ sql_content = IndentedCommentLine
  /\ queries = <<Chars("SELECT 1")>>

(***************************************************************************)
(* The splitter against the naive split.                                   *)
(***************************************************************************)
NoQuoteNoMarker(c) == Range(c) \cap {"'", "\""} = {} /\ ~HasMarker(c)

NotEmpty(q) == q # <<>>

StripAll(ps) == [k \in 1..Len(ps) |-> Strip(ps[k])]

\* split the text on ';', trim each piece, drop the empty pieces
NaiveSplit(c) == SelectSeq(StripAll(SplitOn(c, ";", <<>>)), NotEmpty)

\* the piece as one logical line: its lines trimmed, the blank ones dropped,
\* the others joined with one space
OneLine(piece) == Join(SelectSeq(StripAll(SplitLines(piece)), NotEmpty))

OneLineAll(ps) == [k \in 1..Len(ps) |-> OneLine(ps[k])]

\* split the text on ';', make each piece one logical line, drop the empty
\* pieces
NaiveSplitOneLine(c) == SelectSeq(OneLineAll(SplitOn(c, ";", <<>>)), NotEmpty)

\* C7 as stated: on a script without quote and comment marker the result is
\* 'split on ;, trim each piece, drop the empty pieces', element for element.
C7_EqualsNaiveSplit ==
  pc = "done" /\ NoQuoteNoMarker(sql_content)
    => queries = NaiveSplit(sql_content)

\* C7 as amended: on a script without quote and comment marker the result is
\* 'split on ;, trim each piece, drop the empty pieces' once every line break
\* inside a piece, with the whitespace and blank lines around it, is replaced
\* by one space.
C7_EqualsNaiveSplitOneLine ==
  pc = "done" /\ NoQuoteNoMarker(sql_content)
    => queries = NaiveSplitOneLine(sql_content)

\* a statement over two lines, returned as one line
C7_Witness ==
  /\ pc = "done"
  /\ sql_content = <<"a", NL, "a", ";">>
  /\ queries = <<<<"a", " ", "a">>>>

(***************************************************************************)
(* Splitting a statement again.                                            *)
(***************************************************************************)
\* the quote that is open after s, "None" when every literal is closed
RECURSIVE OpenQuote(_, _)
OpenQuote(s, open) ==
  IF s = <<>> THEN open
  ELSE IF Head(s) \in {"'", "\""} /\ open = "None" THEN OpenQuote(Tail(s), Head(s))
  ELSE IF Head(s) = open THEN OpenQuote(Tail(s), "None")
  ELSE OpenQuote(Tail(s), open)

Resplit(q) == split_sql_queries(q \o <<";">>)

NotSpace(c) == ~IsSpace(c)
NotSpaceNorDelimiter(c) == ~IsSpace(c) /\ c # ";"

RECURSIVE Flatten(_)
Flatten(qs) == IF qs = <<>> THEN <<>> ELSE Head(qs) \o Flatten(Tail(qs))

\* the script is one literal: a quote, and no second quote of that kind
\* before the last character
IsLiteralOnly(c) ==
  /\ c # <<>>
  /\ c[1] \in {"'", "\""}
  /\ \A k \in 2..(Len(c) - 1) : c[k] # c[1]

\* inside a literal, at a ';', at a character of a comment marker or at the
\* quote of the other kind
AtLiteralChar(s) ==
  /\ InLoop(s) /\ s.in_string
  /\ Char(s) \in {";", "-", "/", "*", "'", "\""}
  /\ Char(s) # s.string_char

\* C9: inside a single- or double-quoted literal, also one that spans
\* several lines, a ';', a '--' (also at the start of a line), a '/*', a '*/'
\* and the quote of the other kind leave the scan state unchanged, and the
\* character stays in the statement: a script that is one literal returns
\* one statement with every non-whitespace character of the script.
C9_LiteralKept ==
  /\ AtLiteralChar(State) => Step(State) = [State EXCEPT !.i = i + 1]
  /\ pc = "done" /\ IsLiteralOnly(sql_content)
       => /\ Len(queries) = 1
          /\ SelectSeq(queries[1], NotSpace) = SelectSeq(sql_content, NotSpace)

\* the characters the scan reads outside comments (in_comment false, and
\* not the marker that opens a comment), from state s on
RECURSIVE ScannedCode(_)
ScannedCode(s) ==
  IF s.pc = "done" THEN <<>>
  ELSE IF AtQuote(s) \/ AtSemicolon(s) \/ (AtOther(s) /\ ~s.in_comment)
    THEN <<Char(s)>> \o ScannedCode(Step(s))
  ELSE IF AtBlockClose(s) /\ ~s.in_comment
    THEN <<"*", "/">> \o ScannedCode(Step(s))
  ELSE ScannedCode(Step(s))

\* C10: the statements lose no code: the non-whitespace, non-';' characters
\* scanned outside comments are, in source order, the non-whitespace,
\* non-';' characters of the statements; code on the line where a comment
\* opens is kept.
C10_NoCodeLost ==
  pc = "done"
    => SelectSeq(Flatten(queries), NotSpaceNorDelimiter)
         = SelectSeq(ScannedCode(Start(sql_content)), NotSpaceNorDelimiter)

(***************************************************************************)
(* The end of the input.                                                   *)
(***************************************************************************)
\* the buffer at the return: the parts of the statement that was being
\* scanned, joined and trimmed (current_query is not cleared by the return)
Buffer == Strip(Join(current_query))

Last(qs) == qs[Len(qs)]

\* C11: when the input ends inside an unterminated quoted literal, the
\* accumulated text, trimmed, is returned as the last statement; it holds the
\* quote that is open; "SELECT 'abc" returns ["SELECT 'abc"].
C11_UnterminatedLiteralFlushed ==
  /\ pc = "done" /\ in_string
       => /\ queries # <<>>
          /\ Last(queries) = Buffer
          /\ string_char \in Range(Last(queries))
  /\ pc = "done" /\ sql_content = UnterminatedLiteral
       => queries = <<UnterminatedLiteral>>

\* the scenario "SELECT 'abc" has returned inside its literal
C11_Witness ==
  /\ pc = "done" /\ in_string
  /\ sql_content = UnterminatedLiteral
  /\ queries = <<Chars("SELECT 'abc")>>

\* the input has a '/*' and no '--': in_comment comes from a block comment
OnlyBlockComments(c) ==
  /\ \E k \in 1..Len(c) : MarkerAt(c, k) /\ <<c[k], c[k + 1]>> = <<"/", "*">>
  /\ \A k \in 1..Len(c) : MarkerAt(c, k) => <<c[k], c[k + 1]>> # <<"-", "-">>

\* C12: when the input ends inside an unterminated block comment, the
\* statement text accumulated before the comment opened, trimmed, is returned
\* as the last statement when it is not empty.
C12_UnterminatedCommentFlushed ==
  pc = "done" /\ in_comment /\ OnlyBlockComments(sql_content) /\ Buffer # <<>>
    => queries # <<>> /\ Last(queries) = Buffer

\* what the caller of split_sql_queries gets: the returned list
Outcome(s) == [returned |-> s.queries]

\* well-terminated scripts to compare with
PlainScripts == Strings({"a", ";"}, MaxTerm)

\* C13: when the input ends inside a quote or a block comment the caller
\* observes an anomaly signal: the outcome differs from the outcome of every
\* well-terminated input, also of one that gives the same statements.
C13_AnomalyObservable ==
  pc = "done" /\ (in_string \/ (in_comment /\ OnlyBlockComments(sql_content)))
    => \A w \in PlainScripts : Outcome(State) # Outcome(Run(Start(w)))

(***************************************************************************)
(* Statements without code, and the order of the statements.               *)
(***************************************************************************)
\* C14: a statement that consists only of whitespace and comments is never
\* returned: a script in which no character other than whitespace and ';' is
\* scanned outside comments returns no statement (a block comment followed
\* directly by ';' adds none).
C14_CommentOnlyNotEmitted ==
  /\ pc = "done"
       /\ SelectSeq(ScannedCode(Start(sql_content)), NotSpaceNorDelimiter) = <<>>
       => queries = <<>>
  /\ pc = "done" /\ sql_content = CommentOnlyStatement
       => queries = <<Chars("SELECT 1")>>

IsPrefix(s, t) == Len(s) <= Len(t) /\ SubSeq(t, 1, Len(s)) = s

\* s is t with some characters left out
RECURSIVE IsSubseq(_, _)
IsSubseq(s, t) ==
  IF s = <<>> THEN TRUE
  ELSE IF t = <<>> THEN FALSE
  ELSE IF Head(s) = Head(t) THEN IsSubseq(Tail(s), Tail(t))
  ELSE IsSubseq(s, Tail(t))

\* C15: the statements are returned in the order of the source text: the
\* list only ever grows at its end, and the characters of the statements,
\* read in list order, occur in that order in the script.
C15_SourceOrder ==
  /\ [][IsPrefix(queries, queries')]_vars
  /\ [](IsSubseq(SelectSeq(Flatten(queries), NotSpace),
                 SelectSeq(sql_content, NotSpace)))

\* two different statements returned, the first one of the script first
C15_Witness ==
  /\ pc = "done"
  /\ Len(queries) = 2
  /\ queries[1] # queries[2]
  /\ queries[1][1] = LStrip(sql_content)[1]

\* C16: when the input ends in Code state with a buffer that is not empty
\* after trimming, the buffer is returned as the last statement, and the
\* script returns the same statements with a ';' appended.
C16_LastStatementWithoutDelimiter ==
  pc = "done" /\ ~in_string /\ ~in_comment
    => /\ Buffer # <<>> => queries # <<>> /\ Last(queries) = Buffer
       /\ split_sql_queries(sql_content \o <<";">>) = queries

\* a second statement without ';' returned after a first one
C16_Witness ==
  /\ pc = "done" /\ ~in_string /\ ~in_comment
  /\ Len(queries) = 2
  /\ Last(queries) = Buffer
  /\ Last(sql_content) # ";"

(***************************************************************************)
(* The scan state.                                                         *)
(***************************************************************************)
\* C19: exactly one scan state is active at every scan position: the scan
\* starts in Code (in_string false, string_char None, in_comment false),
\* in_string and in_comment are never both true, and string_char is a quote
\* character exactly when in_string is true.
C19_OneScanState ==
  /\ ~(in_string /\ in_comment)
  /\ in_string <=> string_char \in {"'", "\""}
  /\ ~in_string <=> string_char = "None"
  /\ pc = "for" /\ lines = SplitLines(sql_content)
       => ~in_string /\ ~in_comment /\ string_char = "None"

\* inside a double-quoted literal, behind a '/*' and a single quote in it
C19_Witness ==
  /\ pc = "while" /\ in_string /\ string_char = "\"" /\ ~in_comment
  /\ i = 4
  /\ SubSeq(line, 1, 4) = <<"\"", "/", "*", "'">>

\* C20: a line comment ends at the end of its line: when no block comment
\* was opened, the scanner is in Code state or in a literal at the start of
\* every line, and a ';' on a later line ends a statement;
\* 'SELECT 1; -- c\nSELECT 2;' returns two statements.
C20_LineCommentEndsAtLineEnd ==
  /\ pc = "for" /\ lines # <<>> /\ "/" \notin Range(sql_content) => ~in_comment
  /\ pc = "done" /\ sql_content = CommentBetweenStatements
       => queries = <<Chars("SELECT 1"), Chars("SELECT 2")>>

(***************************************************************************)
(* The query runners.  Every call that can raise (execute_trino_query and  *)
(* DataFrame.to_csv) either returns or raises; the choice is the           *)
(* environment's.                                                          *)
(***************************************************************************)
Stmt(k) == [j \in 1..k |-> "a"]

\* k statements a; aa; aaa; ... each followed by the delimiters sep
RECURSIVE Script(_, _)
Script(k, sep) == IF k = 0 THEN <<>> ELSE Script(k - 1, sep) \o Stmt(k) \o sep

RunnerScripts ==
  {Script(k, sep) : k \in 0..MaxQueries, sep \in {<<";">>, <<";", NL, ";">>}}

\* the script was read and split (main.py 51-54, trino_queries_flow.py
\* 127-130), or given with --query (trino_queries_flow.py 132)
RunnerInit ==
  \E content \in RunnerScripts, r \in {"pipeline", "cli_file", "cli_query"},
     out \in {"None", "out"} :
    /\ Is(Run(Start(content)))
    /\ ExecIdle
    /\ PipelineIdle
    /\ runner = r
    /\ output_arg = IF r = "pipeline" THEN "None" ELSE out
    /\ r_queries = IF r = "cli_query" THEN <<content>> ELSE split_sql_queries(content)
    /\ r_i = 0
    /\ r_pc = "for"
    /\ results_df = None
    /\ last_result = None
    /\ all_results = <<>>
    /\ files = NoFiles
    /\ submitted = <<>>
    /\ failed = [k \in 1..Len(IF r = "cli_query" THEN <<content>> ELSE split_sql_queries(content)) |-> "none"]

Write(fs, name, df) == [n \in DOMAIN fs \cup {name} |-> IF n = name THEN df ELSE fs[n]]

\* the artifact is numbered from 0
OutputFile_ZeroBased(k) == <<"query_result", k - 1>>

\* output_file = os.path.join(output_dir, f"query_result_{i}.csv")
OutputFile(k) == <<"query_result", k>>

FinalName == <<"final_query_result">>

\* f"{args.output}_{i}.csv" if len(queries) > 1 else args.output
CliName(k) == IF Len(r_queries) > 1 THEN <<"out", k>> ELSE <<"out">>

\* for i, query in enumerate(queries, 1)
RunnerNextQuery ==
  /\ r_pc = "for" /\ r_i < Len(r_queries)
  /\ r_i' = r_i + 1
  /\ r_pc' = "execute"
  /\ UNCHANGED <<runner, output_arg, r_queries, results_df, last_result,
                 all_results, files, submitted, failed>>
  /\ UNCHANGED vars
  /\ UNCHANGED evars
  /\ UNCHANGED pvars

\* results_df = execute_trino_query(..., sql_query=query) returns
ExecuteReturns ==
  /\ r_pc = "execute"
  /\ submitted' = Append(submitted, Df(r_i, r_queries[r_i]))
  /\ results_df' = Df(r_i, r_queries[r_i])
  /\ r_pc' = "save"
  /\ UNCHANGED <<runner, output_arg, r_queries, r_i, last_result, all_results,
                 files, failed>>
  /\ UNCHANGED vars
  /\ UNCHANGED evars
  /\ UNCHANGED pvars

\* execute_trino_query raises
ExecuteRaises ==
  /\ r_pc = "execute"
  /\ submitted' = Append(submitted, Df(r_i, r_queries[r_i]))
  /\ failed' = [failed EXCEPT ![r_i] = "execute"]
  /\ r_pc' = "except"
  /\ UNCHANGED <<runner, output_arg, r_queries, r_i, results_df, last_result,
                 all_results, files>>
  /\ UNCHANGED vars
  /\ UNCHANGED evars
  /\ UNCHANGED pvars

\* the final artifact is written behind every statement
SaveReturns_AlwaysFinal ==
  /\ runner = "pipeline" /\ r_pc = "save"
  /\ files' = Write(files, OutputFile(r_i), results_df)
  /\ last_result' = results_df
  /\ r_pc' = "final"
  /\ UNCHANGED <<runner, output_arg, r_queries, r_i, results_df, all_results,
                 submitted, failed>>
  /\ UNCHANGED vars
  /\ UNCHANGED evars
  /\ UNCHANGED pvars

\* run_trino_queries: the numbered artifact is written, last_result is set
SaveReturns ==
  /\ runner = "pipeline" /\ r_pc = "save"
  /\ files' = Write(files, OutputFile(r_i), results_df)
  /\ last_result' = results_df
  /\ r_pc' = IF r_i = Len(r_queries) THEN "final" ELSE "for"
  /\ UNCHANGED <<runner, output_arg, r_queries, r_i, results_df, all_results,
                 submitted, failed>>
  /\ UNCHANGED vars
  /\ UNCHANGED evars
  /\ UNCHANGED pvars

\* run_trino_queries: results_df.to_csv(output_file) raises
SaveRaises ==
  /\ runner = "pipeline" /\ r_pc = "save"
  /\ failed' = [failed EXCEPT ![r_i] = "save"]
  /\ r_pc' = "except"
  /\ UNCHANGED <<runner, output_arg, r_queries, r_i, results_df, last_result,
                 all_results, files, submitted>>
  /\ UNCHANGED vars
  /\ UNCHANGED evars
  /\ UNCHANGED pvars

\* run_trino_queries: if i == len(queries), the final artifact is written
FinalReturns ==
  /\ runner = "pipeline" /\ r_pc = "final"
  /\ files' = Write(files, FinalName, results_df)
  /\ r_pc' = "for"
  /\ UNCHANGED <<runner, output_arg, r_queries, r_i, results_df, last_result,
                 all_results, submitted, failed>>
  /\ UNCHANGED vars
  /\ UNCHANGED evars
  /\ UNCHANGED pvars

\* run_trino_queries: results_df.to_csv(final_output) raises
FinalRaises ==
  /\ runner = "pipeline" /\ r_pc = "final"
  /\ failed' = [failed EXCEPT ![r_i] = "final"]
  /\ r_pc' = "except"
  /\ UNCHANGED <<runner, output_arg, r_queries, r_i, results_df, last_result,
                 all_results, files, submitted>>
  /\ UNCHANGED vars
  /\ UNCHANGED evars
  /\ UNCHANGED pvars

\* the handler lets the exception leave the runner
Except_Reraise ==
  /\ r_pc = "except"
  /\ r_pc' = "raised"
  /\ UNCHANGED <<runner, output_arg, r_queries, r_i, results_df, last_result,
                 all_results, files, submitted, failed>>
  /\ UNCHANGED vars
  /\ UNCHANGED evars
  /\ UNCHANGED pvars

\* except Exception as e: the error is logged (run_trino_queries), or printed
\* and None is collected (command line)
Except ==
  /\ r_pc = "except"
  /\ all_results' = IF runner = "pipeline" THEN all_results ELSE Append(all_results, None)
  /\ r_pc' = "for"
  /\ UNCHANGED <<runner, output_arg, r_queries, r_i, results_df, last_result,
                 files, submitted, failed>>
  /\ UNCHANGED vars
  /\ UNCHANGED evars
  /\ UNCHANGED pvars

\* command line: the result is shown, saved if args.output is given, and
\* collected
CliSaveReturns ==
  /\ runner \in {"cli_file", "cli_query"} /\ r_pc = "save"
  /\ files' = IF output_arg # "None" THEN Write(files, CliName(r_i), results_df) ELSE files
  /\ all_results' = Append(all_results, results_df)
  /\ r_pc' = "for"
  /\ UNCHANGED <<runner, output_arg, r_queries, r_i, results_df, last_result,
                 submitted, failed>>
  /\ UNCHANGED vars
  /\ UNCHANGED evars
  /\ UNCHANGED pvars

\* command line: results_df.to_csv(output_file) raises
CliSaveRaises ==
  /\ runner \in {"cli_file", "cli_query"} /\ r_pc = "save"
  /\ output_arg # "None"
  /\ failed' = [failed EXCEPT ![r_i] = "save"]
  /\ r_pc' = "except"
  /\ UNCHANGED <<runner, output_arg, r_queries, r_i, results_df, last_result,
                 all_results, files, submitted>>
  /\ UNCHANGED vars
  /\ UNCHANGED evars
  /\ UNCHANGED pvars

\* the loop is over: return last_result, or the end of main
RunnerReturns ==
  /\ r_pc = "for" /\ r_i = Len(r_queries)
  /\ r_pc' = "done"
  /\ UNCHANGED <<runner, output_arg, r_queries, r_i, results_df, last_result,
                 all_results, files, submitted, failed>>
  /\ UNCHANGED vars
  /\ UNCHANGED evars
  /\ UNCHANGED pvars

RunnerNext ==
  \/ RunnerNextQuery
  \/ ExecuteReturns
  \/ ExecuteRaises
  \/ SaveReturns
  \/ SaveRaises
  \/ FinalReturns
  \/ FinalRaises
  \/ Except
  \/ CliSaveReturns
  \/ CliSaveRaises
  \/ RunnerReturns

allvars == <<vars, rvars, evars, pvars>>

RunnerSpec == RunnerInit /\ [][RunnerNext]_allvars

\* the statements of the list with their positions
Positioned(qs) == [k \in 1..Len(qs) |-> Df(k, qs[k])]

\* C17: a failure while executing or saving a statement does not abort the
\* batch: the statements are handed to the engine once each, in list order,
\* whatever failed before, no exception leaves the runner, and when the
\* runner has returned every statement of the list was attempted.
C17_BatchNotAborted ==
  /\ r_pc # "raised"
  /\ IsPrefix(submitted, Positioned(r_queries))
  /\ r_pc \in {"for", "done"} => Len(submitted) = r_i
  /\ r_pc = "done" => submitted = Positioned(r_queries)

\* the runner has returned after the execution of the first statement and
\* the saving of the second one failed, with the third one attempted
C17_Witness ==
  /\ runner = "pipeline" /\ r_pc = "done"
  /\ Len(r_queries) = 3
  /\ failed[1] = "execute" /\ failed[2] = "save"
  /\ Len(submitted) = 3

\* the artifact query_result_<k>.csv
NumberedName(k) == <<"query_result", k>>

\* C18: in run_trino_queries the result of the statement at position i that
\* was executed and saved is in the artifact query_result_<i>.csv, no
\* numbered artifact holds another statement's result, and the result of
\* the final statement, once saved, is also in final_query_result.csv.
C18_ArtifactsByPosition ==
  runner = "pipeline" =>
    /\ \A k \in 1..Len(r_queries) :
         /\ NumberedName(k) \in DOMAIN files
              => files[NumberedName(k)] = Df(k, r_queries[k])
         /\ r_pc = "done" /\ failed[k] \notin {"execute", "save"}
              => NumberedName(k) \in DOMAIN files
    /\ DOMAIN files \subseteq {NumberedName(k) : k \in 1..Len(r_queries)} \cup {FinalName}
    /\ FinalName \in DOMAIN files
         => files[FinalName] = Df(Len(r_queries), r_queries[Len(r_queries)])
    /\ r_pc = "done" /\ r_queries # <<>> /\ failed[Len(r_queries)] = "none"
         => FinalName \in DOMAIN files

\* three statements executed and saved, the final artifact written
C18_Witness ==
  /\ runner = "pipeline" /\ r_pc = "done"
  /\ Len(r_queries) = 3
  /\ DOMAIN files = {NumberedName(1), NumberedName(2), NumberedName(3), FinalName}
  /\ files[FinalName] = files[NumberedName(3)]

(***************************************************************************)
(* Block comments.                                                         *)
(***************************************************************************)
\* C21: block comments do not nest: in a script '/* c */ x;' the first '*/'
\* behind the opening closes the comment, whatever c holds (a further '/*',
\* a '/', a '--', quotes, line breaks), and the ';' behind it ends a
\* statement: one statement is returned and the scan ends outside comments.
C21_FirstCloseEndsComment ==
  pc = "done" /\ IsBlockCommentScript(sql_content)
    => Len(queries) = 1 /\ ~in_comment

(***************************************************************************)
(* The scan state at the line boundaries.                                  *)
(***************************************************************************)
\* at a ';' inside a literal or a comment
AtDelimiterInside(s) ==
  InLoop(s) /\ Char(s) = ";" /\ (s.in_string \/ s.in_comment)

OpenedOnFirstLine == <<"/", "*", NL, ";">>
LiteralOverTwoLines == <<"'", NL, ";", "'">>

\* C22: the scan state persists across the line boundaries: the steps that
\* end a line and that take the next line leave in_string, string_char and
\* in_comment as they are, and a ';' scanned inside a literal or a comment,
\* also on a later line than the opening, ends no statement.
C22_StatePersists ==
  /\ [][(pc = "for" \/ pc' = "for")
         => UNCHANGED <<in_string, string_char, in_comment>>]_vars
  /\ [][AtDelimiterInside(State) => UNCHANGED <<queries, current_query>>]_vars
  /\ [](pc = "done" /\ sql_content = OpenedOnFirstLine => queries = <<>>)
  /\ [](pc = "done" /\ sql_content = LiteralOverTwoLines
          => queries = <<<<"'", " ", ";", "'">>>>)

\* at the ';' of the second line, inside the block comment opened on the
\* first line
C22_Witness ==
  /\ sql_content = OpenedOnFirstLine
  /\ pc = "while" /\ line = <<";">> /\ i = 0
  /\ in_comment

\* the text between the opening '/*' and the first '*/' behind it
CommentBody(c) ==
  SubSeq(c, 3, Min({k \in 3..(Len(c) - 1) : <<c[k], c[k + 1]>> = <<"*", "/">>}) - 1)

ScanFlags(s) ==
  [in_string |-> s.in_string, string_char |-> s.string_char,
   in_comment |-> s.in_comment]

\* C23: the characters inside a block comment are discarded and leave the
\* scan state as it is: a step inside a comment other than the closing '*/'
\* changes none of in_string, string_char and in_comment, and a script
\* '/* c */ x;' whose comment holds a quote returns the one statement x, with
\* no character of the comment.
C23_CommentCharsDiscarded ==
  /\ InLoop(State) /\ in_comment /\ ~AtBlockClose(State)
       => ScanFlags(Step(State)) = ScanFlags(State)
  /\ pc = "done" /\ IsBlockCommentScript(sql_content)
       /\ Range(CommentBody(sql_content)) \cap {"'", "\""} # {}
       /\ Range(CommentBody(sql_content)) \cap {"-", "/"} = {}
       => queries = <<AfterBlockComment(sql_content)>>

(***************************************************************************)
(* Quotes inside literals.                                                 *)
(***************************************************************************)
Count(s, c) == Cardinality(Positions(s, c))

\* the script holds quotes of the kind q only, and no comment marker
OneQuoteKind(c, q) ==
  /\ q \in Range(c)
  /\ Range(c) \cap ({"'", "\""} \ {q}) = {}
  /\ ~HasMarker(c)

\* the quotes of kind q of the script that the scan has passed
QuotesBehind(q) ==
  Count(sql_content, q) - Count(Flatten(lines), q)
    - (IF pc = "while" THEN Count(SliceFrom(line, i), q) ELSE 0)

TripleQuote == <<"'", "'", "'", ";">>

\* C24: no quote escaping: in a script with quotes of one kind only (and no
\* comment marker) every quote toggles the state, so the scan is inside a
\* literal exactly behind an odd number of quotes (behind a doubled quote
\* it is where it was before it), and a ';' is a delimiter exactly behind an
\* even number of quotes.
C24_QuotesToggle ==
  \A q \in {"'", "\""} :
    OneQuoteKind(sql_content, q) =>
      /\ in_string <=> QuotesBehind(q) % 2 = 1
      /\ in_string => string_char = q
      /\ InLoop(State) /\ Char(State) = ";"
           => (AtSemicolon(State) <=> QuotesBehind(q) % 2 = 0)
      /\ pc = "done" /\ sql_content = TripleQuote => queries = <<TripleQuote>>

\* at the ';' behind an opened literal and a doubled quote: inside the
\* literal again
C24_Witness ==
  /\ sql_content = TripleQuote
  /\ pc = "while" /\ i = 3
  /\ in_string /\ string_char = "'"
  /\ ~AtSemicolon(State)

(***************************************************************************)
(* Statements over several lines.                                          *)
(***************************************************************************)
BlankLineBetween == <<"a", NL, NL, "a">>

\* C25: a statement that spans several lines is returned as one logical
\* line: no statement holds a line break, and a script without comment
\* marker returns what it returns when every line break, with the
\* whitespace and the blank lines around it, is replaced by one space.
C25_OneLogicalLine ==
  /\ \A k \in 1..Len(queries) : NL \notin Range(queries[k])
  /\ pc = "done" /\ ~HasMarker(sql_content)
       => queries = split_sql_queries(OneLine(sql_content))
  /\ pc = "done" /\ sql_content = BlankLineBetween
       => queries = <<<<"a", " ", "a">>>>

\* a literal over two lines, returned with one space for the line break
C25_Witness ==
  /\ pc = "done"
  /\ sql_content = <<"'", " ", NL, "'">>
  /\ queries = <<<<"'", " ", "'">>>>

(***************************************************************************)
(* The final artifact and the value run_trino_queries returns.             *)
(***************************************************************************)
\* the statement at position k was executed and its numbered artifact saved
Succeeded(k) == failed[k] \notin {"execute", "save"}

\* the result of the last statement that succeeded, None if none did
LastSucceeded ==
  LET S == {k \in 1..Len(r_queries) : Succeeded(k)}
  IN IF S = {} THEN None ELSE Df(Max(S), r_queries[Max(S)])

\* C26: in run_trino_queries final_query_result.csv is written only when the
\* statement at the last position was executed and saved: with a last
\* statement that failed, or an empty list, there is no final artifact,
\* also when earlier statements succeeded; the value returned is the result
\* of the last statement that succeeded, None if none did.
C26_FinalOnlyForLast ==
  runner = "pipeline" =>
    /\ FinalName \in DOMAIN files
         => /\ r_queries # <<>> /\ r_i = Len(r_queries)
            /\ failed[Len(r_queries)] = "none"
            /\ NumberedName(Len(r_queries)) \in DOMAIN files
    /\ r_pc = "done" /\ (r_queries = <<>> \/ ~Succeeded(Len(r_queries)))
         => FinalName \notin DOMAIN files
    /\ r_pc = "done" => last_result = LastSucceeded

\* the third of three statements failed after the second was saved: no
\* final artifact, and the result of the second is returned
C26_Witness ==
  /\ runner = "pipeline" /\ r_pc = "done"
  /\ Len(r_queries) = 3
  /\ failed[2] = "none" /\ failed[3] = "execute"
  /\ NumberedName(2) \in DOMAIN files
  /\ FinalName \notin DOMAIN files
  /\ last_result = Df(2, r_queries[2])

(***************************************************************************)
(* execute_trino_query.  The calls into the driver (connect, cursor,       *)
(* execute, fetchall, close) either return or raise; the choice is the     *)
(* environment's.                                                          *)
(***************************************************************************)
\* what cursor.description can be: None, or the column descriptions
Descriptions == {"None", "columns"}

\* what cursor.fetchall() can return
RowLists == {<<>>, <<"r1">>, <<"r1", "r2">>}

\* the call is made with one of the statements of a script
ExecInit ==
  \E content \in RunnerScripts :
    /\ Is(Run(Start(content)))
    /\ RunnerIdle
    /\ PipelineIdle
    /\ \E k \in 1..Len(split_sql_queries(content)) :
         sql_query = split_sql_queries(content)[k]
    /\ e_pc = "connect"
    /\ conn = "None"
    /\ closes = 0
    /\ cursor = "None"
    /\ description = "None"
    /\ rows = <<>>
    /\ e_df = NoFrame
    /\ pending = "None"

\* conn = trino.dbapi.connect(...)
ConnectReturns ==
  /\ e_pc = "connect"
  /\ conn' = "open"
  /\ e_pc' = "cursor"
  /\ UNCHANGED <<sql_query, closes, cursor, description, rows, e_df, pending>>
  /\ UNCHANGED <<vars, rvars, pvars>>

ConnectRaises ==
  /\ e_pc = "connect"
  /\ pending' = "connect"
  /\ e_pc' = "raised"
  /\ UNCHANGED <<sql_query, conn, closes, cursor, description, rows, e_df>>
  /\ UNCHANGED <<vars, rvars, pvars>>

\* cursor = conn.cursor(), before the try
CursorReturns ==
  /\ e_pc = "cursor"
  /\ cursor' = "cursor"
  /\ e_pc' = "execute"
  /\ UNCHANGED <<sql_query, conn, closes, description, rows, e_df, pending>>
  /\ UNCHANGED <<vars, rvars, pvars>>

CursorRaises ==
  /\ e_pc = "cursor"
  /\ pending' = "cursor"
  /\ e_pc' = "raised"
  /\ UNCHANGED <<sql_query, conn, closes, cursor, description, rows, e_df>>
  /\ UNCHANGED <<vars, rvars, pvars>>

\* cursor.execute(sql_query)
CursorExecuteReturns ==
  /\ e_pc = "execute"
  /\ \E d \in Descriptions : description' = d
  /\ e_pc' = "fetchall"
  /\ UNCHANGED <<sql_query, conn, closes, cursor, rows, e_df, pending>>
  /\ UNCHANGED <<vars, rvars, pvars>>

\* the exception leaves the function without the finally block
CursorExecuteRaises_NoFinally ==
  /\ e_pc = "execute"
  /\ pending' = "execute"
  /\ e_pc' = "raised"
  /\ UNCHANGED <<sql_query, conn, closes, cursor, description, rows, e_df>>
  /\ UNCHANGED <<vars, rvars, pvars>>

CursorExecuteRaises ==
  /\ e_pc = "execute"
  /\ pending' = "execute"
  /\ e_pc' = "finally"
  /\ UNCHANGED <<sql_query, conn, closes, cursor, description, rows, e_df>>
  /\ UNCHANGED <<vars, rvars, pvars>>

\* rows = cursor.fetchall()
FetchallReturns ==
  /\ e_pc = "fetchall"
  /\ \E r \in RowLists : rows' = r
  /\ e_pc' = "frame"
  /\ UNCHANGED <<sql_query, conn, closes, cursor, description, e_df, pending>>
  /\ UNCHANGED <<vars, rvars, pvars>>

FetchallRaises ==
  /\ e_pc = "fetchall"
  /\ pending' = "fetchall"
  /\ e_pc' = "finally"
  /\ UNCHANGED <<sql_query, conn, closes, cursor, description, rows, e_df>>
  /\ UNCHANGED <<vars, rvars, pvars>>

\* results_df = pd.DataFrame(rows, columns=column_names), or pd.DataFrame()
\* when there is no description; return results_df
Frame ==
  /\ e_pc = "frame"
  /\ e_df' = IF description # "None"
              THEN [columns |-> description, rows |-> rows]
              ELSE [columns |-> "None", rows |-> <<>>]
  /\ e_pc' = "finally"
  /\ UNCHANGED <<sql_query, conn, closes, cursor, description, rows, pending>>
  /\ UNCHANGED <<vars, rvars, pvars>>

\* finally: conn.close() returns; then the return, or the exception goes on
CloseReturns ==
  /\ e_pc = "finally"
  /\ conn' = "closed"
  /\ closes' = closes + 1
  /\ e_pc' = IF pending = "None" THEN "returned" ELSE "raised"
  /\ UNCHANGED <<sql_query, cursor, description, rows, e_df, pending>>
  /\ UNCHANGED <<vars, rvars, pvars>>

\* finally: conn.close() raises; its exception leaves the function
CloseRaises ==
  /\ e_pc = "finally"
  /\ conn' \in {"open", "closed"}
  /\ closes' = closes + 1
  /\ pending' = "close"
  /\ e_pc' = "raised"
  /\ UNCHANGED <<sql_query, cursor, description, rows, e_df>>
  /\ UNCHANGED <<vars, rvars, pvars>>

ExecNext ==
  \/ ConnectReturns
  \/ ConnectRaises
  \/ CursorReturns
  \/ CursorRaises
  \/ CursorExecuteReturns
  \/ CursorExecuteRaises
  \/ FetchallReturns
  \/ FetchallRaises
  \/ Frame
  \/ CloseReturns
  \/ CloseRaises

ExecSpec == ExecInit /\ [][ExecNext]_allvars

\* C27: once the connection and the cursor were created, conn.close() is
\* called exactly once before the call returns or its exception goes on,
\* and not before: on the return, on an exception of cursor.execute and on
\* an exception of cursor.fetchall the connection is closed.
C27_ClosedExactlyOnce ==
  /\ closes <= 1
  /\ e_pc \in {"execute", "fetchall", "frame", "finally"}
       => conn = "open" /\ closes = 0
  /\ e_pc \in {"returned", "raised"} /\ cursor # "None" => closes = 1
  /\ e_pc = "returned" => conn = "closed" /\ pending = "None"
  /\ e_pc = "raised" /\ pending \in {"execute", "fetchall"} => conn = "closed"

\* the exception of cursor.fetchall has left the function, with the
\* connection closed
C27_Witness ==
  /\ e_pc = "raised" /\ pending = "fetchall"
  /\ conn = "closed" /\ closes = 1

(***************************************************************************)
(* The skipped lines.                                                      *)
(***************************************************************************)
\* C28: a blank line and a line whose trimmed text starts with '--' are
\* skipped as a whole: the step takes the line and leaves in_string,
\* string_char, in_comment, the buffer of the current statement and the
\* list of statements as they are, in whatever state the line is reached.
C28_SkippedLineKeepsState ==
  [][AtBlankLine(State) \/ AtCommentLine(State)
       => /\ UNCHANGED <<in_string, string_char, in_comment, current_query,
                         queries>>
          /\ lines' = Tail(lines)
          /\ pc' = "for"]_vars

\* behind a skipped '--' line that was reached inside a literal, with text
\* in the buffer
C28_Witness ==
  /\ pc = "for" /\ lines = <<>>
  /\ StartsWithDashes(line)
  /\ in_string /\ current_query # <<>>

(***************************************************************************)
(* The number of statements.                                               *)
(***************************************************************************)
\* C29: the list has at most one statement more than the script has ';',
\* and it grows, by one statement, only at a ';' scanned with in_string and
\* in_comment both false or at the end of the input.
C29_AtMostDelimitersPlusOne ==
  /\ [](Len(queries) <= Count(sql_content, ";") + 1)
  /\ [](pc # "done" => Len(queries) <= Count(sql_content, ";"))
  /\ [][queries' # queries
         => /\ Len(queries') = Len(queries) + 1
            /\ \/ /\ InLoop(State) /\ Char(State) = ";"
                  /\ ~in_string /\ ~in_comment
               \/ pc = "for" /\ lines = <<>>]_vars

\* one ';' and two statements, the second one from the end of the input
C29_Witness ==
  /\ pc = "done"
  /\ Count(sql_content, ";") = 1
  /\ Len(queries) = Count(sql_content, ";") + 1

(***************************************************************************)
(* The pipeline, main of main.py: ten steps inside one try block.  The     *)
(* function of a step either returns or raises; the choice is the          *)
(* environment's, except where the code of the function decides it.        *)
(***************************************************************************)
Steps == 10

\* the steps whose functions are modelled on their own
SetupStep == 6
QueriesStep == 7
CombineStep == 8
AnalysisStep == 9

CombinedName == <<"combined_data">>

\* the pipeline starts with the query file as it is on the disk
PipelineInit ==
  \E content \in RunnerScripts :
    /\ Is(Run(Start(content)))
    /\ RunnerIdle
    /\ ExecIdle
    /\ p_pc = "next"
    /\ step = 0
    /\ log = <<>>
    /\ trino_config = "None"

\* logger.info("STEP k: ..."), then the call; before the call of step 7 a
\* configuration that is None is replaced by the default one
StepStarts ==
  /\ p_pc = "next" /\ step < Steps
  /\ step' = step + 1
  /\ log' = Append(log, <<"STEP", step + 1>>)
  /\ trino_config' =
       IF step + 1 = QueriesStep /\ trino_config = "None"
         THEN "default" ELSE trino_config
  /\ p_pc' = "call"
  /\ UNCHANGED <<vars, rvars, evars>>

\* the function of the step returns; logger.info("... completed")
StepReturns ==
  /\ p_pc = "call"
  /\ step \notin {SetupStep, QueriesStep, CombineStep, AnalysisStep}
  /\ log' = Append(log, <<"completed", step>>)
  /\ p_pc' = "next"
  /\ UNCHANGED <<step, trino_config>>
  /\ UNCHANGED <<vars, rvars, evars>>

\* setup_local_trino_for_parquet has no return statement: it returns None
SetupReturns ==
  /\ p_pc = "call" /\ step = SetupStep
  /\ trino_config' = "None"
  /\ log' = Append(log, <<"completed", step>>)
  /\ p_pc' = "next"
  /\ UNCHANGED step
  /\ UNCHANGED <<vars, rvars, evars>>

\* run_trino_queries is called: the file is read and split, last_result is
\* None
QueriesStart ==
  /\ p_pc = "call" /\ step = QueriesStep
  /\ runner' = "pipeline"
  /\ r_queries' = queries
  /\ r_i' = 0
  /\ r_pc' = "for"
  /\ failed' = [k \in 1..Len(queries) |-> "none"]
  /\ p_pc' = "queries"
  /\ UNCHANGED <<output_arg, results_df, last_result, all_results, files,
                 submitted>>
  /\ UNCHANGED <<step, log, trino_config>>
  /\ UNCHANGED <<vars, evars>>

\* run_trino_queries has returned; logger.info("Trino queries completed")
QueriesReturn ==
  /\ p_pc = "queries" /\ r_pc = "done"
  /\ log' = Append(log, <<"completed", step>>)
  /\ p_pc' = "next"
  /\ UNCHANGED <<step, trino_config>>
  /\ UNCHANGED <<vars, rvars, evars>>

\* combine_csvs catches every exception of its body and returns: the
\* combined file is written when final_query_result.csv could be read and
\* nothing else failed
CombineReturns ==
  /\ p_pc = "call" /\ step = CombineStep
  /\ \E ok \in BOOLEAN :
       files' = IF ok /\ FinalName \in DOMAIN files
                  THEN Write(files, CombinedName, files[FinalName])
                ELSE files
  /\ log' = Append(log, <<"completed", step>>)
  /\ p_pc' = "next"
  /\ UNCHANGED <<runner, output_arg, r_queries, r_i, r_pc, results_df,
                 last_result, all_results, submitted, failed>>
  /\ UNCHANGED <<step, trino_config>>
  /\ UNCHANGED <<vars, evars>>

\* analyze_podcasts returns: pd.read_csv has found the combined file
AnalysisReturns ==
  /\ p_pc = "call" /\ step = AnalysisStep
  /\ CombinedName \in DOMAIN files
  /\ log' = Append(log, <<"completed", step>>)
  /\ p_pc' = "next"
  /\ UNCHANGED <<step, trino_config>>
  /\ UNCHANGED <<vars, rvars, evars>>

\* the function of the step raises (combine_csvs does not)
StepRaises ==
  /\ p_pc = "call" /\ step # CombineStep
  /\ p_pc' = "except"
  /\ UNCHANGED <<step, log, trino_config>>
  /\ UNCHANGED <<vars, rvars, evars>>

\* the handler logs the error and the pipeline goes on with the next step
Handler_Swallow ==
  /\ p_pc = "except"
  /\ log' = Append(log, <<"error">>)
  /\ p_pc' = "next"
  /\ UNCHANGED <<step, trino_config>>
  /\ UNCHANGED <<vars, rvars, evars>>

\* except Exception as e: logger.error(...); raise
Handler ==
  /\ p_pc = "except"
  /\ log' = Append(log, <<"error">>)
  /\ p_pc' = "raised"
  /\ UNCHANGED <<step, trino_config>>
  /\ UNCHANGED <<vars, rvars, evars>>

\* logger.info("Pipeline execution completed successfully!")
Success ==
  /\ p_pc = "next" /\ step = Steps
  /\ log' = Append(log, <<"success">>)
  /\ p_pc' = "returned"
  /\ UNCHANGED <<step, trino_config>>
  /\ UNCHANGED <<vars, rvars, evars>>

PipelineNext ==
  \/ StepStarts
  \/ StepReturns
  \/ SetupReturns
  \/ QueriesStart
  \/ RunnerNextQuery
  \/ ExecuteReturns
  \/ ExecuteRaises
  \/ SaveReturns
  \/ SaveRaises
  \/ FinalReturns
  \/ FinalRaises
  \/ Except
  \/ RunnerReturns
  \/ QueriesReturn
  \/ CombineReturns
  \/ AnalysisReturns
  \/ StepRaises
  \/ Handler
  \/ Success

PipelineSpec == PipelineInit /\ [][PipelineNext]_allvars

\* the messages of the starts and of the returns of the steps
IsStepMessage(m) == m[1] \in {"STEP", "completed"}

\* started 1, returned 1, started 2, ..., returned k
RECURSIVE InOrder(_)
InOrder(k) ==
  IF k = 0 THEN <<>>
  ELSE InOrder(k - 1) \o <<<<"STEP", k>>, <<"completed", k>>>>

\* C30: the ten steps run strictly in order: the starts and the returns of
\* the steps alternate from step 1 upwards, so a step starts only after the
\* one before it has returned; when a step raises no later step starts, the
\* handler is entered and the exception leaves main; the success message
\* is logged only after the tenth step has returned.
C30_StepsInOrder ==
  /\ [](IsPrefix(SelectSeq(log, IsStepMessage), InOrder(Steps)))
  /\ [](Len(SelectSeq(log, IsStepMessage))
          = IF p_pc \in {"call", "queries", "except"} THEN 2 * step - 1
            ELSE IF p_pc = "raised" THEN 2 * step - 1
            ELSE 2 * step)
  /\ [][p_pc = "except" => p_pc' = "raised" /\ step' = step]_allvars
  /\ [][(p_pc \in {"raised", "returned"})
         => UNCHANGED <<p_pc, step, log>>]_allvars
  /\ [](p_pc = "raised"
          => Last(log) = <<"error">> /\ <<"success">> \notin Range(log))
  /\ [](<<"success">> \in Range(log)
          => /\ p_pc = "returned" /\ step = Steps
             /\ SubSeq(log, 1, Len(log) - 1) = InOrder(Steps))

\* the last statement of the query file has failed, combine_csvs has
\* returned without the combined file, and the exception of the analysis
\* has left main: step 10 was not started
C30_Witness ==
  /\ p_pc = "raised" /\ step = AnalysisStep
  /\ FinalName \notin DOMAIN files
  /\ <<"completed", CombineStep>> \in Range(log)
  /\ <<"STEP", Steps>> \notin Range(log)

=============================================================================
